---- MODULE Spec2Model ----
(***************************************************************************)
(* Cart and order workflow of flipkart-clone/src/lib/supabase.ts.          *)
(*                                                                         *)
(* The browser's localStorage slot 'flipkart_cart' is the variable         *)
(* storage; the remote tables products, orders and order_items are the     *)
(* variables products, orders and order_items.  Every exported function    *)
(* is an async function: the code between two awaits runs to completion    *)
(* on the single JavaScript thread, so each action below is one such       *)
(* synchronous stretch together with the remote request it was waiting     *)
(* for: a timer firing or one request being answered.  A storage write     *)
(* and a remote request can fail; the failure is an input of the action.   *)
(* Quantities and prices are integers.                                     *)
(***************************************************************************)
EXTENDS Integers, Sequences, FiniteSets, TLC

\* ------------------------------------------------------------------ bounds
MaxClock == 1
MaxQtyArg == 1
MaxOrders == 1
MaxEdits == 1
MaxAddCalls == 2
MaxNotifications == 1

\* ------------------------------------------------------- program constants
FreeShippingAbove == 500
ShippingFee == 40

\* ------------------------------------------------------------ input sets
ProductIds == {"p1", "p2"}
CatalogEdits == {[name |-> "Shoe", price |-> 300]}
Clock == 0..MaxClock
QtyArgs == 0..MaxQtyArg
MaxStoredQty == MaxQtyArg + 1
ItemIdArgs == {ToString(t) : t \in Clock}
AddCallers == 1..MaxAddCalls
\* the createOrder calls that can be in flight: a checkout and a second
\* submit of it
OrderCallers == {"c1", "c2"}
SingleCaller == {"c1"}
\* addToCart appends only for a product without item: one item a product
MaxCartLen == Cardinality(ProductIds)
Emails == {"a@shop.io", "b@shop.io"}
CategoryIds == {"c1", "c2"}
CategorySlugs == {"men", "women"}
SlugArgs == {"all", "", "men", "women", "kids"}

VARIABLES
    storage,      \* localStorage['flipkart_cart'], parsed: Seq of CartItem
    now,          \* Date.now()
    products,     \* remote table products: id -> row
    orders,       \* remote table orders: Seq of rows, row i has id i
    order_items,  \* remote table order_items: Seq of rows
    edits,        \* number of catalog edits made so far
    \* of the createOrder call of every caller in OrderCallers:
    pc,           \* createOrder: the await it is suspended at, or "idle"
    timer,        \* createOrder: Date.now() when getCartItems set its timer
    cartItems,    \* createOrder: const cartItems
    order,        \* createOrder: the orders insert payload, then the row
    itemsError,   \* createOrder: const { error: itemsError }
    result,       \* createOrder: how the last call settled
    pending,      \* createOrder: getCartItems' product requests in flight
    addCalls,     \* addToCart: the calls in flight, by caller slot
    notifications,\* remote table notifications: Seq of rows
    notifyResult, \* sendOrderNotification: how the last call settled
    notifyCall,   \* sendOrderNotification: the call in flight and its row
    fetched,      \* what the caller's last getOrder call returned
    categories,   \* remote table categories: set of rows
    categoryOf,   \* remote table products, column category_id
    listing       \* getProducts: the last call and what it returned

vars == <<storage, now, products, orders, order_items, edits,
          pc, timer, cartItems, order, itemsError, result, pending,
          addCalls, notifications, notifyResult, notifyCall, fetched,
          categories, categoryOf, listing>>

callVars == <<pc, timer, cartItems, order, itemsError, result, pending>>

addVars == <<addCalls>>
notifyVars == <<notifications, notifyResult, notifyCall, fetched>>
catalogVars == <<categories, categoryOf, listing>>
extVars == <<addCalls, notifications, notifyResult, notifyCall, fetched,
             categories, categoryOf, listing>>

\* ------------------------------------------------------------ data shapes
CartItem(id, productId, quantity) ==
    [id |-> id, product_id |-> productId, quantity |-> quantity]

\* getProduct's null / CartItem.product undefined
NoProduct == [found |-> FALSE, id |-> "", name |-> "", price |-> 0]

NoOrder ==
    [id |-> 0, created_at |-> 0, order_number |-> "", subtotal |-> 0,
     shipping_cost |-> 0, total |-> 0, status |-> ""]

NoResult == [kind |-> "none", message |-> "", order |-> NoOrder]
Threw(msg) == [kind |-> "threw", message |-> msg, order |-> NoOrder]
Returned(o) == [kind |-> "returned", message |-> "", order |-> o]

\* an addToCart call not yet made; of a call made, cart is the cart it
\* read, replaced the stored cart its save replaced, saveFails whether its
\* storage write failed, together the calls that had been made and had
\* not resumed when it was made, list the list its getCartItems assembles
\* and returns, and pending the items whose getProduct request is out
IdleAdd ==
    [pc |-> "idle", cart |-> <<>>, replaced |-> <<>>, product_id |-> "",
     quantity |-> 0, saveFails |-> FALSE, together |-> {}, timer |-> 0,
     list |-> <<>>, pending |-> {}]

\* getOrder's null
NoFetched == [row |-> NoOrder, order_items |-> <<>>]

\* no sendOrderNotification call in flight
IdleNotify ==
    [pc |-> "idle",
     row |-> [email |-> "", type |-> "", order_id |-> 0,
              content |-> [order_number |-> "", total |-> 0,
                           has_items |-> FALSE, items |-> <<>>],
              status |-> ""]]

\* the categories and products.category_id the cart and order runs use
DefaultCategories == {[id |-> "c1", slug |-> "men"]}
DefaultCategoryOf == [p \in ProductIds |-> "c1"]

\* products.category_id of a product without category, and the null
\* catData of getProducts
NoCategory == "null"

\* getProducts: no call in flight and none made
NoListing ==
    [pc |-> "idle", slug |-> "", catId |-> NoCategory, outcome |-> "none",
     products |-> {}]

\* ------------------------------------------------------- Local Cart Store
\* JSON.parse(localStorage.getItem(KEY)): the three own fields of every
\* CartItem, in array order.  The slot holds what saveCartToStorage wrote
\* (or nothing), which getItem and JSON.parse read back, so the read takes
\* line 47; a localStorage that cannot be read holds no cart, for which the
\* catch of line 48 gives the [] of line 47.
getCartFromStorage(slot) ==
    [i \in 1..Len(slot) |->
        CartItem(slot[i].id, slot[i].product_id, slot[i].quantity)]

\* the slot after saveCartToStorage(cart): JSON.stringify(cart), or the
\* slot as it was when setItem throws (saveFails) and the catch logs it
saveCartToStorage(slot, cart, saveFails) ==
    IF saveFails THEN slot
    ELSE [i \in 1..Len(cart) |->
            CartItem(cart[i].id, cart[i].product_id, cart[i].quantity)]

getCartItemsFromStorage(slot) == getCartFromStorage(slot)

\* cart.find(item => item.product_id === productId): the position of the
\* first such item, 0 for undefined
FindByProductId(cart, productId) ==
    IF \E i \in 1..Len(cart) : cart[i].product_id = productId
    THEN CHOOSE i \in 1..Len(cart) :
            /\ cart[i].product_id = productId
            /\ \A j \in 1..(i - 1) : cart[j].product_id # productId
    ELSE 0

\* cart.find(i => i.id === itemId): the position of the first such item,
\* 0 for undefined
FindById(cart, itemId) ==
    IF \E i \in 1..Len(cart) : cart[i].id = itemId
    THEN CHOOSE i \in 1..Len(cart) :
            /\ cart[i].id = itemId
            /\ \A j \in 1..(i - 1) : cart[j].id # itemId
    ELSE 0

\* cart.filter(i => i.id !== itemId)
RECURSIVE FilterOutId(_, _)
FilterOutId(cart, itemId) ==
    IF cart = <<>> THEN <<>>
    ELSE IF Head(cart).id # itemId
         THEN <<Head(cart)>> \o FilterOutId(Tail(cart), itemId)
         ELSE FilterOutId(Tail(cart), itemId)

\* addToCart with `existingItem.quantity = quantity` for `+=`
addToCart_Overwrite(slot, productId, quantity, t, saveFails) ==
    LET cart == getCartFromStorage(slot)
        k == FindByProductId(cart, productId)
    IN  IF k # 0
        THEN saveCartToStorage(slot,
                [cart EXCEPT ![k].quantity = quantity], saveFails)
        ELSE saveCartToStorage(slot,
                Append(cart, CartItem(ToString(t), productId, quantity)),
                saveFails)

\* addToCart with `item.id === productId` for `item.product_id === productId`
addToCart_FindById(slot, productId, quantity, t, saveFails) ==
    LET cart == getCartFromStorage(slot)
        k == FindById(cart, productId)
    IN  IF k # 0
        THEN saveCartToStorage(slot,
                [cart EXCEPT ![k].quantity = cart[k].quantity + quantity],
                saveFails)
        ELSE saveCartToStorage(slot,
                Append(cart, CartItem(ToString(t), productId, quantity)),
                saveFails)

\* the slot after addToCart's lines 158-171, t being Date.now()
addToCart(slot, productId, quantity, t, saveFails) ==
    LET cart == getCartFromStorage(slot)
        k == FindByProductId(cart, productId)
    IN  IF k # 0
        THEN saveCartToStorage(slot,
                [cart EXCEPT ![k].quantity = cart[k].quantity + quantity],
                saveFails)
        ELSE saveCartToStorage(slot,
                Append(cart, CartItem(ToString(t), productId, quantity)),
                saveFails)

\* the slot after updateCartItemQuantity's lines 176-187
updateCartItemQuantity(slot, itemId, quantity, saveFails) ==
    LET cart == getCartFromStorage(slot)
        k == FindById(cart, itemId)
    IN  IF k # 0
        THEN IF quantity <= 0
             THEN saveCartToStorage(slot, FilterOutId(cart, itemId),
                                    saveFails)
             ELSE saveCartToStorage(slot,
                        [cart EXCEPT ![k].quantity = quantity], saveFails)
        ELSE slot

\* removeFromCart with `i.id === itemId` for `i.id !== itemId`
removeFromCart_KeepOnly(slot, itemId, saveFails) ==
    LET cart == getCartFromStorage(slot)
    IN  saveCartToStorage(slot,
            SelectSeq(cart, LAMBDA i : i.id = itemId), saveFails)

\* the slot after removeFromCart's lines 193-195
removeFromCart(slot, itemId, saveFails) ==
    LET cart == getCartFromStorage(slot)
    IN  saveCartToStorage(slot, FilterOutId(cart, itemId), saveFails)

\* the slot after clearCart()
clearCart(slot, saveFails) == saveCartToStorage(slot, <<>>, saveFails)

\* --------------------------------------------------- Remote Catalog Client
\* getProduct(id): the row, or null when the request fails
getProduct(id, failed) ==
    IF failed \/ id \notin DOMAIN products THEN NoProduct
    ELSE [found |-> TRUE, id |-> id,
          name |-> products[id].name, price |-> products[id].price]

\* getCartItems, lines 142-146, run when the timer of line 140 has fired:
\* the cart read then, one getProduct request sent for each item; an
\* item's product is attached when its request is answered
getCartItems(slot) ==
    LET cart == getCartFromStorage(slot)
    IN  [i \in 1..Len(cart) |->
            [id |-> cart[i].id, product_id |-> cart[i].product_id,
             quantity |-> cart[i].quantity, product |-> NoProduct]]

\* the callback of item i dropping every product when its request failed
getCartItemsProduct_DropAll(items, i, failed) ==
    IF failed
    THEN [j \in 1..Len(items) |-> [items[j] EXCEPT !.product = NoProduct]]
    ELSE [items EXCEPT ![i].product = getProduct(items[i].product_id, FALSE)]

\* getCartItems, lines 147-151: the callback of item i once its getProduct
\* request is answered, { ...item, product: product || undefined }
getCartItemsProduct(items, i, failed) ==
    [items EXCEPT ![i].product = getProduct(items[i].product_id, failed)]

\* ---------------------------------------------------------- Order Workflow
\* cartItems.reduce((sum, item) => sum + Number(item.product?.price || 0)
\*                                       * item.quantity, 0)
RECURSIVE Reduce(_, _)
Reduce(items, sum) ==
    IF items = <<>> THEN sum
    ELSE Reduce(Tail(items),
                sum + (IF Head(items).product.found
                       THEN Head(items).product.price ELSE 0)
                      * Head(items).quantity)

Subtotal(items) == Reduce(items, 0)

\* ShippingCost with `subtotal >= 500` for `subtotal > 500`
ShippingCost_FreeAtThreshold(subtotal) ==
    IF subtotal >= FreeShippingAbove THEN 0 ELSE ShippingFee

ShippingCost(subtotal) ==
    IF subtotal > FreeShippingAbove THEN 0 ELSE ShippingFee

OrderNumber(t) == "ORD-" \o ToString(t)

\* the object passed to supabase.from('orders').insert
OrderPayload(items, t) ==
    LET subtotal == Subtotal(items)
        shipping_cost == ShippingCost(subtotal)
    IN  [id |-> 0, created_at |-> 0, order_number |-> OrderNumber(t),
         subtotal |-> subtotal, shipping_cost |-> shipping_cost,
         total |-> subtotal + shipping_cost, status |-> "pending"]

\* cartItems.map(item => ({ order_id, product_id, product_name, price,
\* quantity })); defined when every item has its product
OrderItemsData(items, orderId) ==
    [i \in 1..Len(items) |->
        [order_id |-> orderId, product_id |-> items[i].product_id,
         product_name |-> items[i].product.name,
         price |-> items[i].product.price,
         quantity |-> items[i].quantity]]

\* .select('*, order_items(*)'): the order_items rows of an order
RECURSIVE OrderItemsOf(_, _)
OrderItemsOf(rows, orderId) ==
    IF rows = <<>> THEN <<>>
    ELSE IF Head(rows).order_id = orderId
         THEN <<Head(rows)>> \o OrderItemsOf(Tail(rows), orderId)
         ELSE OrderItemsOf(Tail(rows), orderId)

\* .select('*, order_items(*)') of the orders row with the id
SelectOrder(orderId) ==
    [row |-> orders[orderId],
     order_items |-> OrderItemsOf(order_items, orderId)]

\* getOrder joining every line item with the live products row
getOrder_LiveJoin(orderId, error) ==
    IF ~error /\ orderId \in 1..Len(orders)
    THEN [row |-> orders[orderId],
          order_items |->
            LET rows == OrderItemsOf(order_items, orderId)
            IN  [i \in 1..Len(rows) |->
                    [rows[i] EXCEPT
                        !.product_name = products[rows[i].product_id].name,
                        !.price = products[rows[i].product_id].price]]]
    ELSE [row |-> NoOrder, order_items |-> <<>>]

\* getOrder(orderId): the row with its order_items(*), or null when the
\* request reports an error: it failed, or .single() found no row
getOrder(orderId, error) ==
    IF ~error /\ orderId \in 1..Len(orders)
    THEN SelectOrder(orderId)
    ELSE [row |-> NoOrder, order_items |-> <<>>]

\* ------------------------------------------------------------------- Init
Init ==
    /\ storage = <<>>
    /\ now = 0
    /\ products = [p \in ProductIds |->
                     [name |-> "Shirt", price |-> 250]]
    /\ orders = <<>>
    /\ order_items = <<>>
    /\ edits = 0
    /\ pc = [c \in OrderCallers |-> "idle"]
    /\ timer = [c \in OrderCallers |-> 0]
    /\ cartItems = [c \in OrderCallers |-> <<>>]
    /\ order = [c \in OrderCallers |-> NoOrder]
    /\ itemsError = [c \in OrderCallers |-> FALSE]
    /\ result = [c \in OrderCallers |-> NoResult]
    /\ pending = [c \in OrderCallers |-> {}]
    /\ addCalls = [c \in AddCallers |-> IdleAdd]
    /\ notifications = <<>>
    /\ notifyResult = NoResult
    /\ notifyCall = IdleNotify
    /\ fetched = NoFetched
    /\ categories = DefaultCategories
    /\ categoryOf = DefaultCategoryOf
    /\ listing = NoListing

\* ---------------------------------------------------------------- actions
Tick ==
    /\ now < MaxClock
    /\ now' = now + 1
    /\ UNCHANGED <<storage, products, orders, order_items, edits, callVars>>
    /\ UNCHANGED extVars

QtyInRange(cart) ==
    \A i \in 1..Len(cart) : cart[i].quantity <= MaxStoredQty

AddToCart(productId, quantity, saveFails) ==
    /\ QtyInRange(addToCart(storage, productId, quantity, now, saveFails))
    /\ storage' = addToCart(storage, productId, quantity, now, saveFails)
    /\ UNCHANGED <<now, products, orders, order_items, edits, callVars>>
    /\ UNCHANGED extVars

UpdateCartItemQuantity(itemId, quantity, saveFails) ==
    /\ storage' = updateCartItemQuantity(storage, itemId, quantity, saveFails)
    /\ UNCHANGED <<now, products, orders, order_items, edits, callVars>>
    /\ UNCHANGED extVars

RemoveFromCart(itemId, saveFails) ==
    /\ storage' = removeFromCart(storage, itemId, saveFails)
    /\ UNCHANGED <<now, products, orders, order_items, edits, callVars>>
    /\ UNCHANGED extVars

ClearCart(saveFails) ==
    /\ storage' = clearCart(storage, saveFails)
    /\ UNCHANGED <<now, products, orders, order_items, edits, callVars>>
    /\ UNCHANGED extVars

\* the catalog owner edits a product row
UpdateProduct(productId, row) ==
    /\ edits < MaxEdits
    /\ products[productId] # row
    /\ products' = [products EXCEPT ![productId] = row]
    /\ edits' = edits + 1
    /\ UNCHANGED <<storage, now, orders, order_items, callVars>>
    /\ UNCHANGED extVars

\* the orders rows written since the page was loaded
NewOrders == SelectSeq(orders, LAMBDA o : o.created_at > 0)

\* createOrder without `if (cart.length === 0) throw`
CreateOrderStart_NoEmptyCheck(c) ==
    /\ pc[c] = "idle"
    /\ Len(NewOrders) < MaxOrders
    /\ result' = [result EXCEPT ![c] = NoResult]
    /\ pc' = [pc EXCEPT ![c] = "getCartItems"]
    /\ timer' = [timer EXCEPT ![c] = now]
    /\ cartItems' = [cartItems EXCEPT ![c] = <<>>]
    /\ order' = [order EXCEPT ![c] = NoOrder]
    /\ itemsError' = [itemsError EXCEPT ![c] = FALSE]
    /\ pending' = [pending EXCEPT ![c] = {}]
    /\ UNCHANGED <<storage, now, products, orders, order_items, edits>>
    /\ UNCHANGED extVars

\* caller c calls createOrder: createOrder up to `await getCartItems()` and
\* getCartItems up to its timer, lines 289-294 and 140
CreateOrderStart(c) ==
    /\ pc[c] = "idle"
    /\ Len(NewOrders) < MaxOrders
    /\ IF Len(getCartItemsFromStorage(storage)) = 0
       THEN /\ result' = [result EXCEPT ![c] = Threw("Cart is empty")]
            /\ pc' = [pc EXCEPT ![c] = "idle"]
            /\ timer' = [timer EXCEPT ![c] = 0]
       ELSE /\ result' = [result EXCEPT ![c] = NoResult]
            /\ pc' = [pc EXCEPT ![c] = "getCartItems"]
            /\ timer' = [timer EXCEPT ![c] = now]
    /\ cartItems' = [cartItems EXCEPT ![c] = <<>>]
    /\ order' = [order EXCEPT ![c] = NoOrder]
    /\ itemsError' = [itemsError EXCEPT ![c] = FALSE]
    /\ pending' = [pending EXCEPT ![c] = {}]
    /\ UNCHANGED <<storage, now, products, orders, order_items, edits>>
    /\ UNCHANGED extVars

\* getCartItems' 200 ms timer fires (Date.now() has moved on since it was
\* set): the cart is read and the product requests are sent; of an empty
\* cart Promise.all resolves at once and createOrder runs on to
\* `await supabase.from('orders').insert(...)`
CreateOrderGetCartItems(c) ==
    /\ pc[c] = "getCartItems"
    /\ now > timer[c]
    /\ timer' = [timer EXCEPT ![c] = 0]
    /\ cartItems' = [cartItems EXCEPT ![c] = getCartItems(storage)]
    /\ pending' = [pending EXCEPT ![c] = 1..Len(cartItems'[c])]
    /\ IF pending'[c] = {}
       THEN /\ pc' = [pc EXCEPT ![c] = "insertOrder"]
            /\ order' = [order EXCEPT ![c] = OrderPayload(cartItems'[c], now)]
       ELSE /\ pc' = [pc EXCEPT ![c] = "getProduct"]
            /\ UNCHANGED order
    /\ UNCHANGED <<storage, now, products, orders, order_items, edits,
                   itemsError, result>>
    /\ UNCHANGED extVars

\* the getProduct request of item i is answered; with the last answer
\* Promise.all resolves, getCartItems returns and createOrder runs lines
\* 295-302 up to `await supabase.from('orders').insert(...)`
CreateOrderGetProduct(c, i, failed) ==
    /\ pc[c] = "getProduct"
    /\ i \in pending[c]
    /\ cartItems' = [cartItems EXCEPT
                        ![c] = getCartItemsProduct(cartItems[c], i, failed)]
    /\ pending' = [pending EXCEPT ![c] = pending[c] \ {i}]
    /\ IF pending'[c] = {}
       THEN /\ pc' = [pc EXCEPT ![c] = "insertOrder"]
            /\ order' = [order EXCEPT ![c] = OrderPayload(cartItems'[c], now)]
       ELSE UNCHANGED <<pc, order>>
    /\ UNCHANGED <<storage, now, products, orders, order_items, edits,
                   timer, itemsError, result>>
    /\ UNCHANGED extVars

HasProduct(items) == \A i \in 1..Len(items) : items[i].product.found

\* the orders insert is answered, and createOrder up to
\* `await supabase.from('order_items').insert(...)`
CreateOrderInsertOrder(c, orderError) ==
    /\ pc[c] = "insertOrder"
    /\ IF orderError
       THEN /\ result' = [result EXCEPT ![c] = Threw("Failed to create order")]
            /\ pc' = [pc EXCEPT ![c] = "idle"]
            /\ cartItems' = [cartItems EXCEPT ![c] = <<>>]
            /\ order' = [order EXCEPT ![c] = NoOrder]
            /\ UNCHANGED orders
       ELSE LET row == [order[c] EXCEPT !.id = Len(orders) + 1,
                                       !.created_at = now]
            IN  /\ orders' = Append(orders, row)
                /\ IF HasProduct(cartItems[c])
                   THEN /\ pc' = [pc EXCEPT ![c] = "insertItems"]
                        /\ order' = [order EXCEPT ![c] = row]
                        /\ UNCHANGED <<cartItems, result>>
                   ELSE /\ result' = [result EXCEPT ![c] = Threw("TypeError")]
                        /\ pc' = [pc EXCEPT ![c] = "idle"]
                        /\ cartItems' = [cartItems EXCEPT ![c] = <<>>]
                        /\ order' = [order EXCEPT ![c] = NoOrder]
    /\ UNCHANGED <<storage, now, products, order_items, edits, timer,
                   itemsError, pending>>
    /\ UNCHANGED extVars

\* createOrder clearing the cart only when the order_items insert succeeded
CreateOrderInsertItems_KeepCartOnError(c, error, saveFails) ==
    /\ pc[c] = "insertItems"
    /\ itemsError' = [itemsError EXCEPT ![c] = error]
    /\ order_items' =
            IF error THEN order_items
            ELSE order_items \o OrderItemsData(cartItems[c], order[c].id)
    /\ storage' = IF error THEN storage ELSE clearCart(storage, saveFails)
    /\ result' = [result EXCEPT ![c] = Returned(order[c])]
    /\ pc' = [pc EXCEPT ![c] = "idle"]
    /\ cartItems' = [cartItems EXCEPT ![c] = <<>>]
    /\ order' = [order EXCEPT ![c] = NoOrder]
    /\ UNCHANGED <<now, products, orders, edits, timer, pending>>
    /\ UNCHANGED extVars

\* createOrder throwing when the order_items insert failed
CreateOrderInsertItems_Throw(c, error, saveFails) ==
    /\ pc[c] = "insertItems"
    /\ itemsError' = [itemsError EXCEPT ![c] = error]
    /\ order_items' =
            IF error THEN order_items
            ELSE order_items \o OrderItemsData(cartItems[c], order[c].id)
    /\ storage' = clearCart(storage, saveFails)
    /\ result' = [result EXCEPT ![c] =
                    IF error THEN Threw("Failed to create order items")
                    ELSE Returned(order[c])]
    /\ pc' = [pc EXCEPT ![c] = "idle"]
    /\ cartItems' = [cartItems EXCEPT ![c] = <<>>]
    /\ order' = [order EXCEPT ![c] = NoOrder]
    /\ UNCHANGED <<now, products, orders, edits, timer, pending>>
    /\ UNCHANGED extVars

\* the order_items insert is answered, and createOrder to its return
CreateOrderInsertItems(c, error, saveFails) ==
    /\ pc[c] = "insertItems"
    /\ itemsError' = [itemsError EXCEPT ![c] = error]
    /\ order_items' =
            IF error THEN order_items
            ELSE order_items \o OrderItemsData(cartItems[c], order[c].id)
    /\ storage' = clearCart(storage, saveFails)
    /\ result' = [result EXCEPT ![c] = Returned(order[c])]
    /\ pc' = [pc EXCEPT ![c] = "idle"]
    /\ cartItems' = [cartItems EXCEPT ![c] = <<>>]
    /\ order' = [order EXCEPT ![c] = NoOrder]
    /\ UNCHANGED <<now, products, orders, edits, timer, pending>>
    /\ UNCHANGED extVars

\* ------------------------------------------- addToCart calls in flight
\* addToCart with an await between reading the cart and saving it
AddToCartCall_AwaitBeforeSave(c, productId, quantity, saveFails) ==
    /\ \/ /\ addCalls[c].pc = "idle"
          /\ addCalls' = [addCalls EXCEPT ![c] =
                [pc |-> "read", cart |-> getCartFromStorage(storage),
                 replaced |-> <<>>, product_id |-> productId,
                 quantity |-> quantity, saveFails |-> FALSE,
                 together |-> {a \in AddCallers : addCalls[a].pc = "read"},
                 timer |-> now, list |-> <<>>, pending |-> {}]]
          /\ UNCHANGED storage
       \/ /\ addCalls[c].pc = "read"
          /\ addCalls[c].product_id = productId
          /\ addCalls[c].quantity = quantity
          /\ storage' = IF saveFails THEN storage
                        ELSE addToCart(addCalls[c].cart, productId, quantity,
                                       now, FALSE)
          /\ addCalls' = [addCalls EXCEPT ![c].pc = "getCartItems",
                                          ![c].replaced = storage,
                                          ![c].saveFails = saveFails,
                                          ![c].timer = now]
    /\ UNCHANGED <<now, products, orders, order_items, edits, callVars,
                   notifyVars, catalogVars>>

\* the page makes the call of slot c, addToCart(productId, quantity): lines
\* 158-171 run without an await, then the call waits in getCartItems; the
\* calls made before it that still wait there have not resumed
AddToCartCall(c, productId, quantity, saveFails) ==
    /\ addCalls[c].pc = "idle"
    /\ storage' = addToCart(storage, productId, quantity, now, saveFails)
    /\ addCalls' = [addCalls EXCEPT ![c] =
            [pc |-> "getCartItems", cart |-> getCartFromStorage(storage),
             replaced |-> storage, product_id |-> productId,
             quantity |-> quantity, saveFails |-> saveFails,
             together |-> {a \in AddCallers :
                              addCalls[a].pc = "getCartItems"},
             timer |-> now, list |-> <<>>, pending |-> {}]]
    /\ UNCHANGED <<now, products, orders, order_items, edits, callVars,
                   notifyVars, catalogVars>>

\* the getCartItems timer of the call of slot c fires, lines 140-147: the
\* cart is read and the product requests are sent; of an empty cart
\* Promise.all resolves at once and the call returns []
AddToCartGetCartItems(c) ==
    /\ addCalls[c].pc = "getCartItems"
    /\ now > addCalls[c].timer
    /\ LET items == getCartItems(storage)
       IN  addCalls' = [addCalls EXCEPT
                ![c].pc = IF Len(items) = 0 THEN "returned" ELSE "getProduct",
                ![c].list = items,
                ![c].pending = 1..Len(items)]
    /\ UNCHANGED <<storage, now, products, orders, order_items, edits,
                   callVars, notifyVars, catalogVars>>

\* the getProduct request of item i of the call of slot c is answered,
\* lines 147-151; with the last answer the call returns its list
AddToCartGetProduct(c, i, failed) ==
    /\ addCalls[c].pc = "getProduct"
    /\ i \in addCalls[c].pending
    /\ addCalls' = [addCalls EXCEPT
            ![c].pc = IF addCalls[c].pending = {i} THEN "returned"
                      ELSE "getProduct",
            ![c].list = getCartItemsProduct(addCalls[c].list, i, failed),
            ![c].pending = addCalls[c].pending \ {i}]
    /\ UNCHANGED <<storage, now, products, orders, order_items, edits,
                   callVars, notifyVars, catalogVars>>

\* the page makes each of its addToCart calls once, in any order and at any
\* time, from an empty stored cart
NextAdd ==
    \/ Tick
    \/ \E c \in AddCallers, p \in ProductIds, q \in QtyArgs,
          saveFails \in BOOLEAN :
            AddToCartCall(c, p, q, saveFails)
    \/ \E c \in AddCallers : AddToCartGetCartItems(c)
    \/ \E c \in AddCallers, i \in 1..MaxCartLen, failed \in BOOLEAN :
            AddToCartGetProduct(c, i, failed)

SpecAdd == Init /\ [][NextAdd]_vars

\* ---------------------------------------------------------- getProducts
\* .from('categories').select('id').eq('slug', slug).single(): the row's
\* id, or NoCategory for the null data of a failed request and of a result
\* that is not exactly one row
CategoryIdOfSlug(slug, lookupFails) ==
    LET rows == {c \in categories : c.slug = slug}
    IN  IF lookupFails \/ Cardinality(rows) # 1 THEN NoCategory
        ELSE (CHOOSE c \in rows : TRUE).id

\* a products row as selected with '*, category:categories(*)'
ProductRow(p) ==
    [id |-> p, name |-> products[p].name, price |-> products[p].price,
     category_id |-> categoryOf[p]]

\* the products query without `.eq('category_id', catData.id)`
getProductsQuery_Unfiltered(catId, queryFails) ==
    IF queryFails THEN {}
    ELSE {ProductRow(p) : p \in ProductIds}

\* `await query` and lines 89-97 with the default searchQuery '': the rows
\* returned, in no particular order, filtered by category_id when catData
\* was not null; [] when the request fails
getProductsQuery(catId, queryFails) ==
    IF queryFails THEN {}
    ELSE IF catId # NoCategory
         THEN {ProductRow(p) : p \in
                 {x \in ProductIds : categoryOf[x] = catId}}
         ELSE {ProductRow(p) : p \in ProductIds}

\* the categories tables: ids and slugs are keys
CategoryTables ==
    {T \in SUBSET [id : CategoryIds, slug : CategorySlugs] :
        \A a, b \in T : (a.id = b.id \/ a.slug = b.slug) => a = b}

CategoryColumns == [ProductIds -> CategoryIds \cup {NoCategory}]

InitCatalog ==
    /\ storage = <<>>
    /\ now = 0
    /\ products = [p \in ProductIds |-> [name |-> "Shirt", price |-> 250]]
    /\ orders = <<>>
    /\ order_items = <<>>
    /\ edits = 0
    /\ pc = [c \in OrderCallers |-> "idle"]
    /\ timer = [c \in OrderCallers |-> 0]
    /\ cartItems = [c \in OrderCallers |-> <<>>]
    /\ order = [c \in OrderCallers |-> NoOrder]
    /\ itemsError = [c \in OrderCallers |-> FALSE]
    /\ result = [c \in OrderCallers |-> NoResult]
    /\ pending = [c \in OrderCallers |-> {}]
    /\ addCalls = [c \in AddCallers |-> IdleAdd]
    /\ notifications = <<>>
    /\ notifyResult = NoResult
    /\ notifyCall = IdleNotify
    /\ fetched = NoFetched
    /\ categories \in CategoryTables
    /\ categoryOf \in CategoryColumns
    /\ listing = NoListing

\* the catalog owner changes categories rows and products.category_id
UpdateCatalog(table, column) ==
    /\ edits < MaxEdits
    /\ <<table, column>> # <<categories, categoryOf>>
    /\ categories' = table
    /\ categoryOf' = column
    /\ edits' = edits + 1
    /\ UNCHANGED <<storage, now, products, orders, order_items, callVars,
                   addVars, notifyVars, listing>>

\* getProducts(categorySlug) up to its first await: the categories request
\* of line 81, or `await query` of line 87 for '' and 'all'
GetProductsStart(categorySlug) ==
    /\ listing.pc = "idle"
    /\ listing' =
        [pc |-> IF categorySlug # "" /\ categorySlug # "all"
                THEN "categories" ELSE "products",
         slug |-> categorySlug, catId |-> NoCategory, outcome |-> "none",
         products |-> {}]
    /\ UNCHANGED <<storage, now, products, orders, order_items, edits,
                   callVars, addVars, notifyVars, categories, categoryOf>>

\* the categories request is answered, lines 81-85, and the products
\* request is sent
GetProductsCategories(lookupFails) ==
    /\ listing.pc = "categories"
    /\ listing' = [listing EXCEPT
                     !.pc = "products",
                     !.catId = CategoryIdOfSlug(listing.slug, lookupFails)]
    /\ UNCHANGED <<storage, now, products, orders, order_items, edits,
                   callVars, addVars, notifyVars, categories, categoryOf>>

\* the products request is answered and getProducts returns
GetProductsQuery(queryFails) ==
    /\ listing.pc = "products"
    /\ listing' = [listing EXCEPT
                     !.pc = "idle",
                     !.outcome = IF queryFails THEN "error" ELSE "ok",
                     !.products = getProductsQuery(listing.catId, queryFails)]
    /\ UNCHANGED <<storage, now, products, orders, order_items, edits,
                   callVars, addVars, notifyVars, categories, categoryOf>>

NextCatalog ==
    \/ \E slug \in SlugArgs : GetProductsStart(slug)
    \/ \E lookupFails \in BOOLEAN : GetProductsCategories(lookupFails)
    \/ \E queryFails \in BOOLEAN : GetProductsQuery(queryFails)
    \/ \E table \in CategoryTables, column \in CategoryColumns :
            UpdateCatalog(table, column)
    \/ \E p \in ProductIds, row \in CatalogEdits : UpdateProduct(p, row)

SpecCatalog == InitCatalog /\ [][NextCatalog]_vars

\* ------------------------------------------------------------ getOrders
\* the orders in which the remote may return rows of equal created_at:
\* rank gives every row id its place among its equals
Rankings(n) ==
    {rank \in [1..n -> 1..n] :
        \A i, j \in 1..n : rank[i] = rank[j] => i = j}

\* .order('created_at', { ascending }): row put into an ordered list, after
\* the rows that go before it by created_at and, of equal created_at, by
\* rank
RECURSIVE InsertByCreatedAt(_, _, _, _)
InsertByCreatedAt(sorted, row, ascending, rank) ==
    IF sorted = <<>> THEN <<row>>
    ELSE IF \/ (~ascending /\ row.created_at > Head(sorted).created_at)
            \/ (ascending /\ row.created_at < Head(sorted).created_at)
            \/ /\ row.created_at = Head(sorted).created_at
               /\ rank[row.id] < rank[Head(sorted).id]
         THEN <<row>> \o sorted
         ELSE <<Head(sorted)>>
              \o InsertByCreatedAt(Tail(sorted), row, ascending, rank)

RECURSIVE OrderByCreatedAt(_, _, _)
OrderByCreatedAt(rows, ascending, rank) ==
    IF rows = <<>> THEN <<>>
    ELSE InsertByCreatedAt(OrderByCreatedAt(Tail(rows), ascending, rank),
                           Head(rows), ascending, rank)

\* getOrders with `ascending: true`
getOrders_Ascending(error, rank) ==
    IF error THEN <<>>
    ELSE LET rows == OrderByCreatedAt(orders, TRUE, rank)
         IN  [i \in 1..Len(rows) |-> SelectOrder(rows[i].id)]

\* getOrders(): every order with its order_items(*), or [] on error
getOrders(error, rank) ==
    IF error THEN <<>>
    ELSE LET rows == OrderByCreatedAt(orders, FALSE, rank)
         IN  [i \in 1..Len(rows) |-> SelectOrder(rows[i].id)]

\* the cart of an earlier checkout, assembled
EarlierCart ==
    <<[id |-> "0", product_id |-> "p1", quantity |-> 1,
       product |-> [found |-> TRUE, id |-> "p1", name |-> "Shirt",
                    price |-> 250]]>>

\* the orders and order_items tables when the page is loaded: empty, or
\* holding the order an earlier checkout wrote
EarlierOrders ==
    LET row == [OrderPayload(EarlierCart, 0) EXCEPT !.id = 1,
                                                    !.created_at = 0]
    IN  {[orders |-> <<>>, order_items |-> <<>>],
         [orders |-> <<row>>, order_items |-> OrderItemsData(EarlierCart, 1)]}

InitOrders ==
    /\ storage = <<>>
    /\ now = 0
    /\ products = [p \in ProductIds |-> [name |-> "Shirt", price |-> 250]]
    /\ \E tables \in EarlierOrders :
            /\ orders = tables.orders
            /\ order_items = tables.order_items
    /\ edits = 0
    /\ pc = [c \in OrderCallers |-> "idle"]
    /\ timer = [c \in OrderCallers |-> 0]
    /\ cartItems = [c \in OrderCallers |-> <<>>]
    /\ order = [c \in OrderCallers |-> NoOrder]
    /\ itemsError = [c \in OrderCallers |-> FALSE]
    /\ result = [c \in OrderCallers |-> NoResult]
    /\ pending = [c \in OrderCallers |-> {}]
    /\ addCalls = [c \in AddCallers |-> IdleAdd]
    /\ notifications = <<>>
    /\ notifyResult = NoResult
    /\ notifyCall = IdleNotify
    /\ fetched = NoFetched
    /\ categories = DefaultCategories
    /\ categoryOf = DefaultCategoryOf
    /\ listing = NoListing

\* the checkout and its second submit, with createOrder calls in flight
\* together, and addToCart calls with a positive quantity
NextOrders ==
    \/ Tick
    \/ \E p \in ProductIds, q \in 1..MaxQtyArg, saveFails \in BOOLEAN :
            AddToCart(p, q, saveFails)
    \/ \E c \in OrderCallers : CreateOrderStart(c)
    \/ \E c \in OrderCallers : CreateOrderGetCartItems(c)
    \/ \E c \in OrderCallers, i \in 1..MaxCartLen, failed \in BOOLEAN :
            CreateOrderGetProduct(c, i, failed)
    \/ \E c \in OrderCallers, orderError \in BOOLEAN :
            CreateOrderInsertOrder(c, orderError)
    \/ \E c \in OrderCallers, error \in BOOLEAN, saveFails \in BOOLEAN :
            CreateOrderInsertItems(c, error, saveFails)

SpecOrders == InitOrders /\ [][NextOrders]_vars

\* ------------------------------------------------ sendOrderNotification
\* the caller's getOrder(orderId) call is answered
GetOrder(orderId, error) ==
    /\ fetched' = getOrder(orderId, error)
    /\ UNCHANGED <<storage, now, products, orders, order_items, edits,
                   callVars, addVars, catalogVars, notifications,
                   notifyResult, notifyCall>>

\* the Order object a caller passes: the object its getOrder call returned,
\* with order_items, or the row createOrder returned to c, without
OrderArg(c, withItems) ==
    IF withItems
    THEN [row |-> fetched.row, has_items |-> TRUE,
          order_items |-> fetched.order_items]
    ELSE [row |-> result[c].order, has_items |-> FALSE, order_items |-> <<>>]

\* the object passed to supabase.from('notifications').insert
NotificationRow(email, arg) ==
    [email |-> email,
     type |-> "order_confirmation",
     order_id |-> arg.row.id,
     content |->
        [order_number |-> arg.row.order_number,
         total |-> arg.row.total,
         has_items |-> arg.has_items,
         items |-> [i \in 1..Len(arg.order_items) |->
                      [name |-> arg.order_items[i].product_name,
                       qty |-> arg.order_items[i].quantity,
                       price |-> arg.order_items[i].price]]],
     status |-> "pending"]

\* sendOrderNotification(email, order) up to its await, lines 260-277: the
\* row is built from the object passed and the insert is sent
SendOrderNotificationCall(email, c, withItems) ==
    /\ notifyCall.pc = "idle"
    /\ Len(notifications) < MaxNotifications
    /\ OrderArg(c, withItems).row.id # 0
    /\ notifyCall' = [pc |-> "insert",
                      row |-> NotificationRow(email, OrderArg(c, withItems))]
    /\ notifyResult' = NoResult
    /\ UNCHANGED <<storage, now, products, orders, order_items, edits,
                   callVars, addVars, catalogVars, notifications, fetched>>

\* sendOrderNotification logging a failed insert instead of throwing
SendOrderNotificationInsert_Swallow(error) ==
    /\ notifyCall.pc = "insert"
    /\ notifyResult' = Returned(NoOrder)
    /\ notifications' =
            IF error THEN notifications
            ELSE Append(notifications, notifyCall.row)
    /\ notifyCall' = IdleNotify
    /\ UNCHANGED <<storage, now, products, orders, order_items, edits,
                   callVars, addVars, catalogVars, fetched>>

\* the notifications insert is answered, lines 279-282
SendOrderNotificationInsert(error) ==
    /\ notifyCall.pc = "insert"
    /\ IF error
       THEN /\ notifyResult' = Threw("Failed to record notification")
            /\ UNCHANGED notifications
       ELSE /\ notifyResult' = Returned(NoOrder)
            /\ notifications' = Append(notifications, notifyCall.row)
    /\ notifyCall' = IdleNotify
    /\ UNCHANGED <<storage, now, products, orders, order_items, edits,
                   callVars, addVars, catalogVars, fetched>>

\* one checkout, with getOrder and sendOrderNotification calls of the page
NextNotify ==
    \/ Tick
    \/ \E p \in ProductIds, q \in QtyArgs, saveFails \in BOOLEAN :
            AddToCart(p, q, saveFails)
    \/ \E c \in SingleCaller : CreateOrderStart(c)
    \/ \E c \in SingleCaller : CreateOrderGetCartItems(c)
    \/ \E c \in SingleCaller, i \in 1..MaxCartLen, failed \in BOOLEAN :
            CreateOrderGetProduct(c, i, failed)
    \/ \E c \in SingleCaller, orderError \in BOOLEAN :
            CreateOrderInsertOrder(c, orderError)
    \/ \E c \in SingleCaller, error \in BOOLEAN, saveFails \in BOOLEAN :
            CreateOrderInsertItems(c, error, saveFails)
    \/ \E id \in 1..MaxOrders, error \in BOOLEAN : GetOrder(id, error)
    \/ \E email \in Emails, c \in SingleCaller, withItems \in BOOLEAN :
            SendOrderNotificationCall(email, c, withItems)
    \/ \E error \in BOOLEAN : SendOrderNotificationInsert(error)

SpecNotify == Init /\ [][NextNotify]_vars

\* the cart functions, the catalog owner and one checkout at a time
Next ==
    \/ Tick
    \/ \E p \in ProductIds, q \in QtyArgs, saveFails \in BOOLEAN :
            AddToCart(p, q, saveFails)
    \/ \E id \in ItemIdArgs, q \in QtyArgs, saveFails \in BOOLEAN :
            UpdateCartItemQuantity(id, q, saveFails)
    \/ \E id \in ItemIdArgs, saveFails \in BOOLEAN :
            RemoveFromCart(id, saveFails)
    \/ \E saveFails \in BOOLEAN : ClearCart(saveFails)
    \/ \E p \in ProductIds, row \in CatalogEdits : UpdateProduct(p, row)
    \/ \E c \in SingleCaller : CreateOrderStart(c)
    \/ \E c \in SingleCaller : CreateOrderGetCartItems(c)
    \/ \E c \in SingleCaller, i \in 1..MaxCartLen, failed \in BOOLEAN :
            CreateOrderGetProduct(c, i, failed)
    \/ \E c \in SingleCaller, orderError \in BOOLEAN :
            CreateOrderInsertOrder(c, orderError)
    \/ \E c \in SingleCaller, error \in BOOLEAN, saveFails \in BOOLEAN :
            CreateOrderInsertItems(c, error, saveFails)

Spec == Init /\ [][Next]_vars

TypeOK ==
    /\ now \in Clock
    /\ \A c \in OrderCallers :
        pc[c] \in {"idle", "getCartItems", "getProduct", "insertOrder",
                   "insertItems"}
    /\ Len(NewOrders) < MaxOrders + Cardinality(OrderCallers)

\* ----------------------------------------------------------------- claims
ItemsOf(cart, productId) ==
    {i \in 1..Len(cart) : cart[i].product_id = productId}

RowsOf(orderId) == {i \in 1..Len(order_items) : order_items[i].order_id = orderId}

\* sum over the first n assembled items of product.price x quantity, an
\* item without product counting nothing
RECURSIVE LineSum(_, _)
LineSum(items, n) ==
    IF n = 0 THEN 0
    ELSE LineSum(items, n - 1)
         + (IF items[n].product.found
            THEN items[n].product.price * items[n].quantity ELSE 0)

\* C1: createOrder called while the stored cart holds no items throws
\* "Cart is empty" and writes nothing: orders, order_items and the stored
\* cart are as before the call.
C1_EmptyCartThrows ==
    [][\A c \in OrderCallers :
        (CreateOrderStart(c) /\ Len(storage) = 0) =>
            /\ result'[c].kind = "threw"
            /\ result'[c].message = "Cart is empty"
            /\ pc'[c] = "idle"
            /\ orders' = orders
            /\ order_items' = order_items
            /\ storage' = storage]_vars

C1_Witness ==
    /\ result["c1"] = Threw("Cart is empty")
    /\ pc["c1"] = "idle"
    /\ storage = <<>>

\* C2 as amended: the step in which createOrder returns the Order leaves
\* the stored cart empty when the storage write of its clearCart succeeds,
\* whether the order_items insert succeeded or failed, and as it was when
\* that write fails.
C2_CartEmptyUnlessSaveFails ==
    [][\A c \in OrderCallers, error \in BOOLEAN, saveFails \in BOOLEAN :
        CreateOrderInsertItems(c, error, saveFails) =>
            /\ result'[c].kind = "returned"
            /\ ~saveFails => Len(storage') = 0
            /\ saveFails => storage' = storage]_vars

C2_Witness ==
    /\ pc["c1"] = "idle"
    /\ result["c1"].kind = "returned"
    /\ ~itemsError["c1"]
    /\ RowsOf(result["c1"].order.id) # {}
    /\ storage = <<>>

\* C2: the step in which createOrder returns the Order leaves the stored
\* cart empty, whether the order_items insert succeeded or failed.
C2_CartEmptyAfterReturn ==
    [][\A c \in OrderCallers :
        (pc[c] # "idle" /\ pc'[c] = "idle" /\ result'[c].kind = "returned")
            => Len(storage') = 0]_vars

\* C3: every Order row createOrder writes has shipping_cost 40 when its
\* subtotal is at most 500 and 0 when it is above 500, total = subtotal +
\* shipping_cost, and subtotal = the sum over the assembled cart items of
\* product.price x quantity.
C3_OrderTotals ==
    [][\A c \in OrderCallers :
        (pc[c] = "insertOrder" /\ pc'[c] # "insertOrder"
            /\ Len(orders') > Len(orders)) =>
            LET row == orders'[Len(orders')]
            IN  /\ row.subtotal = LineSum(cartItems[c], Len(cartItems[c]))
                /\ row.subtotal <= 500 => row.shipping_cost = 40
                /\ row.subtotal > 500 => row.shipping_cost = 0
                /\ row.total = row.subtotal + row.shipping_cost]_vars

C3_Witness ==
    \E i \in 1..Len(orders) :
        /\ orders[i].subtotal = 500
        /\ orders[i].shipping_cost = 40
        /\ orders[i].total = 540

\* C4: every stored CartItem has a positive quantity.
C4_QuantityPositive ==
    \A i \in 1..Len(storage) : storage[i].quantity > 0

\* C5: updateCartItemQuantity(itemId, q) on a stored item with that id, its
\* storage write succeeding: for q <= 0 the item is gone from storage, for
\* q > 0 the item is stored with quantity q and the same call again leaves
\* storage unchanged.
C5_UpdateQuantity ==
    [][\A itemId \in ItemIdArgs, q \in QtyArgs :
        UpdateCartItemQuantity(itemId, q, FALSE) =>
            \A k \in 1..Len(storage) :
                storage[k].id = itemId =>
                    /\ q <= 0 =>
                        ~\E j \in 1..Len(storage') : storage'[j] = storage[k]
                    /\ q > 0 =>
                        /\ \E j \in 1..Len(storage') :
                             storage'[j] = [storage[k] EXCEPT !.quantity = q]
                        /\ updateCartItemQuantity(storage', itemId, q, FALSE)
                             = storage']_vars

\* C6 as amended: from any stored cart without an item for p, addToCart(p,
\* a) then addToCart(p, b) whose storage writes both succeed leave exactly
\* one item for p, with quantity a + b; a call whose storage write fails
\* leaves the stored cart as it was.
C6_AddAccumulatesWhenSaved ==
    \A p \in ProductIds, a \in QtyArgs, b \in QtyArgs, t \in Clock,
       f1 \in BOOLEAN, f2 \in BOOLEAN :
        (ItemsOf(storage, p) = {} /\ t >= now) =>
            LET first == addToCart(storage, p, a, now, f1)
                cart == addToCart(first, p, b, t, f2)
            IN  /\ f1 => first = storage
                /\ f2 => cart = first
                /\ (~f1 /\ ~f2) =>
                    /\ Cardinality(ItemsOf(cart, p)) = 1
                    /\ \A j \in ItemsOf(cart, p) : cart[j].quantity = a + b

C6_Witness ==
    \E i \in 1..Len(storage) : storage[i].quantity > MaxQtyArg

\* C6: from any stored cart without an item for p, addToCart(p, a) then
\* addToCart(p, b) leaves exactly one item for p, with quantity a + b.
C6_AddAccumulates ==
    \A p \in ProductIds, a \in QtyArgs, b \in QtyArgs, t \in Clock,
       f1 \in BOOLEAN, f2 \in BOOLEAN :
        (ItemsOf(storage, p) = {} /\ t >= now) =>
            LET cart == addToCart(addToCart(storage, p, a, now, f1),
                                  p, b, t, f2)
            IN  /\ Cardinality(ItemsOf(cart, p)) = 1
                /\ \A j \in ItemsOf(cart, p) : cart[j].quantity = a + b

\* C7: no two stored CartItems have the same product_id.
C7_OneItemPerProduct ==
    \A i, j \in 1..Len(storage) :
        storage[i].product_id = storage[j].product_id => i = j

C7_Witness ==
    /\ Len(storage) = 2
    /\ storage[1].product_id # storage[2].product_id
    /\ storage[1].quantity > MaxQtyArg

\* C8: no two stored CartItems have the same id.
C8_UniqueItemIds ==
    \A i, j \in 1..Len(storage) : storage[i].id = storage[j].id => i = j

\* C9: a change to a products row leaves every order as getOrder returns it
\* unchanged: each OrderItem's product_name and price and the Order's
\* subtotal, shipping_cost and total.
C9_SnapshotKept ==
    [][products' # products =>
        \A id \in 1..Len(orders), error \in BOOLEAN :
            getOrder(id, error)' = getOrder(id, error)]_vars

C9_Witness ==
    \E i \in 1..Len(order_items) :
        /\ products[order_items[i].product_id].price # order_items[i].price
        /\ products[order_items[i].product_id].name
              # order_items[i].product_name

\* C10: when the order_items insert failed, createOrder returned the Order,
\* the Order row is in orders and no order_items row belongs to it.
C10_ItemsFailureSwallowed ==
    \A c \in OrderCallers :
        itemsError[c] =>
            /\ pc[c] = "idle"
            /\ result[c].kind = "returned"
            /\ result[c].order.id \in 1..Len(orders)
            /\ orders[result[c].order.id] = result[c].order
            /\ RowsOf(result[c].order.id) = {}

C10_Witness ==
    /\ itemsError["c1"]
    /\ result["c1"].kind = "returned"
    /\ result["c1"].order.subtotal > 0
    /\ orders # <<>>
    /\ order_items = <<>>

\* the quantity stored for a product, over all the items of the cart
RECURSIVE StoredQty(_, _)
StoredQty(cart, productId) ==
    IF cart = <<>> THEN 0
    ELSE (IF Head(cart).product_id = productId THEN Head(cart).quantity
          ELSE 0)
         + StoredQty(Tail(cart), productId)

\* the calls that are past their save, and whose storage write succeeded
PastSave(c) == addCalls[c].pc \in {"getCartItems", "getProduct", "returned"}
Saved(c) == PastSave(c) /\ ~addCalls[c].saveFails

\* the quantity the first n calls have saved for a product
RECURSIVE SavedQty(_, _)
SavedQty(n, productId) ==
    IF n = 0 THEN 0
    ELSE (IF Saved(n) /\ addCalls[n].product_id = productId
          THEN addCalls[n].quantity ELSE 0)
         + SavedQty(n - 1, productId)

\* C11 as amended: addToCart calls made by one page do not race on the
\* stored cart, however near in time they are made: in every interleaving
\* the stored cart holds, for every product, the sum of the quantities of
\* all calls whose storage write succeeded, so no call's addition is lost.
C11_NoAdditionLost ==
    \A p \in ProductIds : StoredQty(storage, p) = SavedQty(MaxAddCalls, p)

C11_Witness ==
    /\ \A c \in AddCallers : addCalls[c].pc = "getCartItems" /\ Saved(c)
    /\ \E a, b \in AddCallers :
            /\ a \in addCalls[b].together
            /\ addCalls[a].product_id # addCalls[b].product_id
            /\ addCalls[a].quantity > 0
            /\ addCalls[b].quantity > 0
    /\ Len(storage) = 2

\* C11: two addToCart calls race when the second is made before the first
\* has resumed: once both have saved an addition, both had read the same
\* stored cart, the later write went over a stored cart that is not the
\* cart its call had read, and an addition is lost. Of two such calls the
\* code fixes the order of the reads and the writes, so that they can race
\* and that they do race is one statement.
C11_LaterWriteOverwrites ==
    \A a, b \in AddCallers :
        (/\ a \in addCalls[b].together
         /\ Saved(a) /\ addCalls[a].quantity > 0
         /\ Saved(b) /\ addCalls[b].quantity > 0) =>
            /\ addCalls[a].cart = addCalls[b].cart
            /\ \E c \in {a, b} : addCalls[c].replaced # addCalls[c].cart
            /\ \E p \in ProductIds :
                    StoredQty(storage, p) < SavedQty(MaxAddCalls, p)

\* C12: getCartItems reads one entry per stored CartItem, in storage order,
\* with the stored id, product_id and quantity; the answer to an entry's
\* product request leaves the entry without product when the request failed
\* and attaches the products row of its product_id otherwise, changes no
\* other entry, and the last answer lets the call go on.
C12_CartItemsAssembled ==
    [][\A c \in OrderCallers :
        /\ CreateOrderGetCartItems(c) =>
            /\ Len(cartItems'[c]) = Len(storage)
            /\ \A i \in 1..Len(storage) :
                /\ cartItems'[c][i].id = storage[i].id
                /\ cartItems'[c][i].product_id = storage[i].product_id
                /\ cartItems'[c][i].quantity = storage[i].quantity
        /\ \A i \in 1..MaxCartLen, failed \in BOOLEAN :
            CreateOrderGetProduct(c, i, failed) =>
                LET old == cartItems[c]
                    new == cartItems'[c]
                IN  /\ Len(new) = Len(old)
                    /\ \A j \in 1..Len(old) :
                        /\ new[j].id = old[j].id
                        /\ new[j].product_id = old[j].product_id
                        /\ new[j].quantity = old[j].quantity
                        /\ j # i => new[j].product = old[j].product
                    /\ failed => ~new[i].product.found
                    /\ ~failed =>
                        /\ new[i].product.found
                        /\ new[i].product.id = old[i].product_id
                        /\ new[i].product.name
                              = products[old[i].product_id].name
                        /\ new[i].product.price
                              = products[old[i].product_id].price
                    /\ pending'[c] = {} => pc'[c] = "insertOrder"]_vars

C12_Witness ==
    LET items == cartItems["c1"]
    IN  /\ pc["c1"] = "insertOrder"
        /\ Len(items) = 2
        /\ ~items[1].product.found
        /\ items[2].product.found
        /\ items[2].product.price = products[items[2].product_id].price

\* C13: sendOrderNotification throws and inserts nothing when the
\* notifications insert fails, appends exactly one row with status pending
\* for the order when it succeeds, and in both cases leaves orders and
\* order_items as they were.
C13_NotificationWrite ==
    [][/\ \A email \in Emails, c \in OrderCallers, withItems \in BOOLEAN :
            SendOrderNotificationCall(email, c, withItems) =>
                /\ notifyCall'.row.status = "pending"
                /\ notifyCall'.row.email = email
                /\ notifyCall'.row.order_id = OrderArg(c, withItems).row.id
                /\ notifications' = notifications
                /\ orders' = orders
                /\ order_items' = order_items
       /\ \A error \in BOOLEAN :
            SendOrderNotificationInsert(error) =>
                /\ error =>
                    /\ notifyResult'.kind = "threw"
                    /\ notifications' = notifications
                /\ ~error =>
                    /\ notifyResult'.kind = "returned"
                    /\ notifications'
                          = Append(notifications, notifyCall.row)
                    /\ notifications'[Len(notifications')].status
                          = "pending"
                /\ orders' = orders
                /\ order_items' = order_items]_vars

C13_Witness ==
    /\ notifyCall.pc = "idle"
    /\ notifyResult.kind = "threw"
    /\ notifications = <<>>
    /\ orders # <<>>
    /\ order_items # <<>>

\* C14 as amended: getOrders returns every order once, each with a
\* created_at that is later than or equal to that of the order after it.
C14_NewestFirst ==
    \A rank \in Rankings(Len(orders)) :
        LET list == getOrders(FALSE, rank)
        IN  /\ Len(list) = Len(orders)
            /\ \A id \in 1..Len(orders) :
                 Cardinality({i \in 1..Len(list) : list[i].row.id = id}) = 1
            /\ \A i \in 1..(Len(list) - 1) :
                 list[i].row.created_at >= list[i + 1].row.created_at

C14_Witness ==
    /\ Len(orders) >= 3
    /\ orders[1].created_at < orders[2].created_at
    /\ orders[2].created_at = orders[3].created_at
    /\ \E i \in 1..Len(order_items) : order_items[i].order_id = 3

\* C14: in the list getOrders returns every order has a strictly later
\* created_at than the order after it.
C14_StrictlyNewestFirst ==
    \A rank \in Rankings(Len(orders)) :
        LET list == getOrders(FALSE, rank)
        IN  \A i \in 1..(Len(list) - 1) :
                list[i].row.created_at > list[i + 1].row.created_at

\* C15: for a categorySlug other than "" and "all": when the categories
\* request finds exactly one category with the slug, every product
\* getProducts returns has that category's id as category_id; when it finds
\* none or fails, the products returned are all the products, as for "all".
C15_CategoryFilter ==
    [][/\ \A lookupFails \in BOOLEAN :
            GetProductsCategories(lookupFails) =>
                LET found == IF lookupFails THEN {}
                             ELSE {c \in categories : c.slug = listing.slug}
                IN  /\ \A c \in found : listing'.catId = c.id
                    /\ found = {} => listing'.catId = NoCategory
       /\ \A queryFails \in BOOLEAN :
            GetProductsQuery(queryFails) =>
                /\ listing'.catId = listing.catId
                /\ listing.catId # NoCategory =>
                    \A row \in listing'.products :
                        row.category_id = listing.catId
                /\ (listing.catId = NoCategory /\ ~queryFails) =>
                    listing'.products = {ProductRow(p) : p \in ProductIds}
      ]_vars

C15_Witness ==
    /\ listing.pc = "idle"
    /\ listing.slug = "men"
    /\ listing.outcome = "ok"
    /\ listing.catId = "c1"
    /\ listing.products # {}
    /\ \E p \in ProductIds : categoryOf[p] = "c2"

\* C16: a step in which createOrder settles by throwing leaves orders as it
\* was; orders rows are written only in the step of the orders insert, so a
\* call that throws has committed no Order row.
C16_NoOrderWhenThrown ==
    [][\A c \in OrderCallers :
        (result'[c] # result[c] /\ result'[c].kind = "threw")
            => orders' = orders]_vars

\* C17: createOrder writes an Order row only for an assembled cart that is
\* not empty.
C17_NoOrderFromEmptyCart ==
    [][\A c \in OrderCallers :
        (pc[c] = "insertOrder" /\ pc'[c] # "insertOrder"
            /\ Len(orders') > Len(orders))
            => Len(cartItems[c]) > 0]_vars

\* C18: every CartItem the final clearCart of createOrder removes from
\* storage is among the assembled items whose line items the call tried to
\* write, with at least the stored quantity.
C18_ClearOnlyOrdered ==
    [][\A c \in OrderCallers :
        (pc[c] = "insertItems" /\ pc'[c] = "idle") =>
            \A i \in 1..Len(storage) :
                (\A k \in 1..Len(storage') : storage'[k] # storage[i]) =>
                    \E j \in 1..Len(cartItems[c]) :
                        LET item == cartItems[c][j]
                        IN  /\ item.id = storage[i].id
                            /\ item.product_id = storage[i].product_id
                            /\ item.quantity >= storage[i].quantity]_vars

\* the stored items whose id is not itemId, in order
OthersOf(cart, itemId) == SelectSeq(cart, LAMBDA item : item.id # itemId)

\* C19: updateCartItemQuantity(itemId, q) and removeFromCart(itemId) leave
\* the stored items with another id as they were and in their order, and
\* leave the stored cart unchanged when no stored item has the id.
C19_OthersUntouched ==
    \A itemId \in ItemIdArgs, q \in QtyArgs, saveFails \in BOOLEAN :
        LET updated == updateCartItemQuantity(storage, itemId, q, saveFails)
            removed == removeFromCart(storage, itemId, saveFails)
        IN  /\ OthersOf(updated, itemId) = OthersOf(storage, itemId)
            /\ OthersOf(removed, itemId) = OthersOf(storage, itemId)
            /\ (\A i \in 1..Len(storage) : storage[i].id # itemId) =>
                    (updated = storage /\ removed = storage)

C19_Witness ==
    /\ Len(storage) = 2
    /\ storage[1].id # storage[2].id
    /\ storage[1].quantity = MaxStoredQty
====
